---- MODULE Spec2Model ----
(***************************************************************************)
(* The mod action queue of the mod manager's front end: the functions      *)
(* addQueuedModAction, removeQueuedModAction and startQueue, the           *)
(* queueAutoStart subscription, the `empty` handler and the worker of      *)
(* modActionsQueue, an `async` queue(worker) with the default concurrency. *)
(*                                                                         *)
(* One step of the model is one JavaScript job: an exported function run   *)
(* to completion, a deferred q.process() call, or the settlement of the    *)
(* promise of the operation that the worker invoked.                       *)
(*                                                                         *)
(* The second part is the Go type HttpServer with Listen, ListenTLS and    *)
(* Close: one step is one critical section of s.mu, one call of the        *)
(* net/http server, or the return of one.  It has its own specification,   *)
(* SpecHttp.                                                                *)
(***************************************************************************)
EXTENDS Integers, Sequences, FiniteSets, TLC

\* ------------------------------------------------------------------ bounds

\* Number of addQueuedModAction calls in a behaviour.
MaxSubmit == 2

\* Number of q.process() calls that resume() may have deferred and not run.
MaxDeferred == 1

\* Number of Listen and ListenTLS calls in a behaviour.
MaxListen == 2

\* Number of Close calls in a behaviour.
MaxClose == 2

\* Mod references passed as `mod`.
Mods == {"ModX", "ModY"}

\* Callable references passed as `func`; two submissions may carry the same.
Funcs == {"opX", "opY"}

\* Values of `action`.
Kinds == {"install"}

\* What a promise returned by func() may be fulfilled with ...
OkValues == {"undefined", "zero", "result"}

\* ... or rejected with.
Errors == {"Error"}

\* ------------------------------------------------------------------- state

VARIABLES
    queueAutoStart,          \* the queueAutoStart store's value
    queuedActionsInternal,   \* the store's array of {mod, action, func}
    tasks,                   \* q._tasks: items {data, callback} not yet taken
    paused,                  \* q.paused
    numRunning,              \* numRunning of the queue
    workersList,             \* items handed to the worker, callback not called
    processingScheduled,     \* _insert has deferred a q.process()
    resumeScheduled,         \* q.process() calls deferred by resume()
    handle,                  \* per submission: the promise pushAsync returned
    outcome,                 \* per submission: how the promise of func() settled
    invoked,                 \* submissions whose func() the worker has called, in order
    withdrawn,               \* submissions removeQueuedModAction located while queued
    last                     \* the job that produced the current state

vars == <<queueAutoStart, queuedActionsInternal, tasks, paused, numRunning,
          workersList, processingScheduled, resumeScheduled, handle, outcome,
          invoked, withdrawn, last>>

VARIABLES
    servers,                 \* s.servers: the listeners registered, in order
    mu,                      \* s.mu: "free" or "rlocked" by a running Close
    listeners,               \* per Listen/ListenTLS call: its goroutine and server
    inShutdown,              \* listeners whose server had Shutdown called
    closes,                  \* per Close call: its arguments and its result
    closeIdx,                \* position of a running Close in s.servers
    panicked                 \* a goroutine panicked: the process is gone

httpVars == <<servers, mu, listeners, inShutdown, closes, closeIdx, panicked>>

allVars == <<vars, httpVars>>

\* -------------------------------------------------------- JavaScript values

\* ToBoolean of a settlement value: `if (err)` in the queue's promise callback.
Truthy(v) == v \notin {"undefined", "zero"}

pending == [state |-> "pending", v |-> "undefined"]

noOutcome == [ok |-> FALSE, v |-> "none"]

\* ------------------------------------------------------------ seq helpers

RECURSIVE filter(_, _)
\* Array.prototype.filter / DLL.remove with the complementary test: keeps the
\* elements of s that are members of keep, in order.
filter(s, keep) ==
    IF s = <<>> THEN <<>>
    ELSE IF Head(s) \in keep THEN <<Head(s)>> \o filter(Tail(s), keep)
         ELSE filter(Tail(s), keep)

Range(s) == {s[i] : i \in 1..Len(s)}

Ids(s) == {s[i].id : i \in 1..Len(s)}

\* --------------------------------------------------- the queue (async.queue)

\* A queue created with two workers: queue(worker, 2).
concurrencyTwo == 1 + 1

\* queue(worker) is called without a concurrency argument: one worker.
concurrency == 1

\* The queue object as the operators below read and write it.
Q == [tasks |-> tasks, paused |-> paused, numRunning |-> numRunning,
      workersList |-> workersList, resumeScheduled |-> resumeScheduled]

\* q.pause()
\* A pause() that also drops the waiting items.
pauseDropping(q) == [q EXCEPT !.paused = TRUE, !.tasks = <<>>]

pause(q) == [q EXCEPT !.paused = TRUE]

\* A resume() that opens the gate and defers no q.process().
resumeNoProcess(q) == [q EXCEPT !.paused = FALSE]

\* q.resume(): returns at once when not paused, else opens the gate and
\* defers one q.process().
resume(q) ==
    IF ~q.paused THEN q
    ELSE [q EXCEPT !.paused = FALSE, !.resumeScheduled = @ + 1]

\* startQueue()
startQueue(q) == resume(q)

\* An `empty` handler that pauses whatever the policy.
emptyAlwaysPause(q, autoStart) == pause(q)

\* The handler given to modActionsQueue.empty.
emptyHandler(q, autoStart) == IF ~autoStart THEN pause(q) ELSE q

\* A subscriber that forgets to resume when the policy is enabled.
subscriberNoResume(q, val) == IF val THEN q ELSE pause(q)

\* The handler given to queueAutoStart.subscribe.
autoStartSubscriber(q, val) == IF val THEN resume(q) ELSE pause(q)

\* The loop condition of q.process().
mayTake(q) == ~q.paused /\ q.numRunning < concurrency /\ Len(q.tasks) > 0

RECURSIVE process(_, _)
\* q.process(): while the gate is open and a worker is free, shift the head
\* of q._tasks, count it running, fire `empty` when that took the last item,
\* and hand it to the worker, which calls task().
process(q, autoStart) ==
    IF mayTake(q)
    THEN LET node == Head(q.tasks)
             q1 == [q EXCEPT !.tasks = Tail(@),
                             !.workersList = Append(@, node),
                             !.numRunning = @ + 1]
             q2 == IF Len(q1.tasks) = 0 THEN emptyHandler(q1, autoStart) ELSE q1
         IN  process(q2, autoStart)
    ELSE q

\* The items process() handed to the worker: what it appended to workersList.
taken(before, after) ==
    [i \in 1..(Len(after) - Len(before)) |-> after[Len(before) + i].id]

\* pushAsync called twice for one submission: the item is queued twice.
insertTwice(ts, item) == Append(Append(ts, item), item)

\* unshift in place of push: the item goes to the front of q._tasks.
insertFront(ts, item) == <<item>> \o ts

\* q.pushAsync(func): _insert appends {data, callback} to q._tasks.
insert(ts, item) == Append(ts, item)

\* A test that matches no item: q.remove takes nothing out.
removeNothing(ts, func) == ts

\* q.remove(testFn) with testFn = (a) => a.data === func: every match goes.
remove(ts, func) == filter(ts, {t \in Range(ts) : t.data # func})

\* The callback push gives the item (no rejectOnError): an error resolves
\* the promise.
promiseCallbackPush(e) == [state |-> "resolved", v |-> "undefined"]

\* The callback pushAsync gives the item (rejectOnError): a truthy first
\* argument rejects the promise with it, anything else resolves it with the
\* second argument, which the worker never passes.
promiseCallback(e) ==
    IF Truthy(e) THEN [state |-> "rejected", v |-> e]
    ELSE [state |-> "resolved", v |-> "undefined"]

\* The callback of _createCB: one fewer running, the item leaves workersList.
createCB(q, node) ==
    [q EXCEPT !.numRunning = @ - 1,
              !.workersList = filter(@, Range(@) \ {node})]

\* ------------------------------------------------------------ the registry

\* get(queuedActionsInternal).find((a) => a.mod === mod): the first match.
find(reg, mod) ==
    LET hits == {i \in 1..Len(reg) : reg[i].mod = mod}
    IN  IF hits = {} THEN <<>>
        ELSE <<reg[CHOOSE i \in hits : \A j \in hits : i <= j]>>

\* startQueue() called whatever the policy.
startAlways(q, autoStart) == startQueue(q)

\* The if of addQueuedModAction: startQueue() when auto-start is on.
startIfAutoStart(q, autoStart) == IF autoStart THEN startQueue(q) ELSE q

\* What the worker passes to complete: task().then(complete).catch(complete)
\* passes the fulfilment value as well as the rejection reason.
completeArg(o) == o.v

\* A complete() that leaves the store as it is.
unqueueNone(reg, task) == reg

\* complete's filter((a) => a.func !== task): every entry with that callable.
unqueueFunc(reg, task) == filter(reg, {a \in Range(reg) : a.func # task})

\* removeQueuedModAction's filter((a) => a.mod !== mod).
unqueueMod(reg, mod) == filter(reg, {a \in Range(reg) : a.mod # mod})

\* How the promise returned by func() may settle.
Outcomes == [ok : {TRUE}, v : OkValues] \cup [ok : {FALSE}, v : Errors]

\* ------------------------------------------------------------------ steps

\* The queue's fields after a job.
SetQ(q) ==
    /\ tasks' = q.tasks
    /\ paused' = q.paused
    /\ numRunning' = q.numRunning
    /\ workersList' = q.workersList
    /\ resumeScheduled' = q.resumeScheduled

\* resume() would defer one more q.process() than the model counts.
ResumeFits == paused => resumeScheduled < MaxDeferred

\* CreateServer: no server registered (s.servers is nil), s.mu unlocked.
CreateServer ==
    /\ servers = <<>>
    /\ mu = "free"
    /\ listeners = <<>>
    /\ inShutdown = {}
    /\ closes = <<>>
    /\ closeIdx = 0
    /\ panicked = FALSE

\* The module's top level: the store is empty, the queue is created unpaused
\* and idle, and subscribe() runs its handler once with the store's value.
Init ==
    /\ queueAutoStart \in BOOLEAN
    /\ queuedActionsInternal = <<>>
    /\ LET q0 == [tasks |-> <<>>, paused |-> FALSE, numRunning |-> 0,
                  workersList |-> <<>>, resumeScheduled |-> 0]
           q1 == autoStartSubscriber(q0, queueAutoStart)
       IN  /\ tasks = q1.tasks
           /\ paused = q1.paused
           /\ numRunning = q1.numRunning
           /\ workersList = q1.workersList
           /\ resumeScheduled = q1.resumeScheduled
    /\ processingScheduled = FALSE
    /\ handle = <<>>
    /\ outcome = <<>>
    /\ invoked = <<>>
    /\ withdrawn = {}
    /\ last = [op |-> "Init", mod |-> ""]
    /\ CreateServer

\* addQueuedModAction(mod, action, func)
addQueuedModAction(mod, action, func) ==
    /\ Len(handle) < MaxSubmit
    /\ queueAutoStart => ResumeFits
    /\ LET id == Len(handle) + 1
           queuedAction == [mod |-> mod, action |-> action, func |-> func, id |-> id]
           q1 == startIfAutoStart(Q, queueAutoStart)
           q2 == [q1 EXCEPT !.tasks = insert(@, [data |-> func, id |-> id])]
       IN  /\ queuedActionsInternal' = Append(queuedActionsInternal, queuedAction)
           /\ SetQ(q2)
           /\ processingScheduled' = TRUE
           /\ handle' = Append(handle, pending)
           /\ outcome' = Append(outcome, noOutcome)
           /\ last' = [op |-> "Submit", mod |-> mod]
           /\ UNCHANGED httpVars
    /\ UNCHANGED <<queueAutoStart, invoked, withdrawn>>

\* removeQueuedModAction(mod)
removeQueuedModAction(mod) ==
    LET found == find(queuedActionsInternal, mod)
    IN  /\ last' = [op |-> "Withdraw", mod |-> mod]
        /\ UNCHANGED httpVars
        /\ IF found = <<>>
           THEN UNCHANGED <<queuedActionsInternal, tasks, withdrawn>>
           ELSE LET queuedAction == found[1]
                IN  /\ tasks' = remove(tasks, queuedAction.func)
                    /\ queuedActionsInternal' = unqueueMod(queuedActionsInternal, mod)
                    /\ withdrawn' = IF queuedAction.id \in Ids(tasks)
                                    THEN withdrawn \cup {queuedAction.id}
                                    ELSE withdrawn
        /\ UNCHANGED <<queueAutoStart, paused, numRunning, workersList,
                       processingScheduled, resumeScheduled, handle, outcome,
                       invoked>>

\* startQueue(), called by the user interface
Release ==
    /\ ResumeFits
    /\ SetQ(startQueue(Q))
    /\ last' = [op |-> "Release", mod |-> ""]
    /\ UNCHANGED httpVars
    /\ UNCHANGED <<queueAutoStart, queuedActionsInternal, processingScheduled,
                   handle, outcome, invoked, withdrawn>>

\* queueAutoStart.set(val) with a new value: the store notifies its subscriber.
SetAutoStart(val) ==
    /\ val # queueAutoStart
    /\ val => ResumeFits
    /\ queueAutoStart' = val
    /\ SetQ(autoStartSubscriber(Q, val))
    /\ last' = [op |-> "SetAutoStart", mod |-> ""]
    /\ UNCHANGED httpVars
    /\ UNCHANGED <<queuedActionsInternal, processingScheduled, handle, outcome,
                   invoked, withdrawn>>

\* The q.process() that _insert deferred.
ProcessTick ==
    /\ processingScheduled
    /\ processingScheduled' = FALSE
    /\ LET q1 == process(Q, queueAutoStart)
       IN  /\ SetQ(q1)
           /\ invoked' = invoked \o taken(workersList, q1.workersList)
    /\ last' = [op |-> "ProcessTick", mod |-> ""]
    /\ UNCHANGED httpVars
    /\ UNCHANGED <<queueAutoStart, queuedActionsInternal, handle, outcome, withdrawn>>

\* A q.process() that resume() deferred.
ResumeTick ==
    /\ resumeScheduled > 0
    /\ LET q0 == [Q EXCEPT !.resumeScheduled = @ - 1]
           q1 == process(q0, queueAutoStart)
       IN  /\ SetQ(q1)
           /\ invoked' = invoked \o taken(workersList, q1.workersList)
    /\ last' = [op |-> "ResumeTick", mod |-> ""]
    /\ UNCHANGED httpVars
    /\ UNCHANGED <<queueAutoStart, queuedActionsInternal, processingScheduled,
                   handle, outcome, withdrawn>>

\* The promise of task() settles with o: complete(e) drops the registry
\* entries of the callable and calls cb(e), which settles the item's promise
\* and calls q.process().
Settle(node, o) ==
    /\ node \in Range(workersList)
    /\ LET e  == completeArg(o)
           q1 == createCB(Q, node)
           q2 == process(q1, queueAutoStart)
       IN  /\ queuedActionsInternal' = unqueueFunc(queuedActionsInternal, node.data)
           /\ handle' = [handle EXCEPT ![node.id] = promiseCallback(e)]
           /\ SetQ(q2)
           /\ invoked' = invoked \o taken(q1.workersList, q2.workersList)
    /\ outcome' = [outcome EXCEPT ![node.id] = o]
    /\ last' = [op |-> "Settle", mod |-> ""]
    /\ UNCHANGED httpVars
    /\ UNCHANGED <<queueAutoStart, processingScheduled, withdrawn>>

\* The promise of some running operation settles, in some way.
Settles == \E node \in Range(workersList), o \in Outcomes : Settle(node, o)

Next ==
    \/ \E mod \in Mods, action \in Kinds, func \in Funcs :
          addQueuedModAction(mod, action, func)
    \/ \E mod \in Mods : removeQueuedModAction(mod)
    \/ Release
    \/ \E val \in BOOLEAN : SetAutoStart(val)
    \/ ProcessTick
    \/ ResumeTick
    \/ Settles

Spec == Init /\ [][Next]_allVars

\* The event loop runs every deferred job, and every operation the worker
\* started settles.
FairSpec ==
    /\ Spec
    /\ WF_vars(ProcessTick)
    /\ WF_vars(ResumeTick)
    /\ WF_vars(Settles)

\* ------------------------------------------------------- the HTTP server

\* Close calls made so far, and whether the latest is still running.
closing == closes # <<>> /\ closes[Len(closes)].ret = "running"

\* Listen and ListenTLS: start the goroutine, call fn when one was given,
\* emit "listening" and return, whatever the goroutine has done by then.
spawn(tls, fn) ==
    /\ ~panicked
    /\ Len(listeners) < MaxListen
    /\ listeners' = Append(listeners, [pc |-> "spawned", tls |-> tls, fn |-> fn])
    /\ UNCHANGED <<servers, mu, inShutdown, closes, closeIdx, panicked>>
    /\ UNCHANGED vars

\* Listen(addr, fn); fn is TRUE for a callable, FALSE for nil.
Listen(fn) == spawn(FALSE, fn)

\* ListenTLS(addr, certFile, keyFile, fn)
ListenTLS(fn) == spawn(TRUE, fn)

\* The goroutine's s.httpServer(addr, s): under s.mu.Lock(), which waits for
\* a running Close to release its read lock, append the new server.
httpServer(k) ==
    /\ ~panicked
    /\ k \in 1..Len(listeners)
    /\ listeners[k].pc = "spawned"
    /\ mu = "free"
    /\ servers' = Append(servers, k)
    /\ listeners' = [listeners EXCEPT ![k].pc = "registered"]
    /\ UNCHANGED <<mu, inShutdown, closes, closeIdx, panicked>>
    /\ UNCHANGED vars

\* The goroutine's ListenAndServe / ListenAndServeTLS: it returns
\* ErrServerClosed at once on a server that was shut down, else it binds and
\* serves, or fails to bind and the goroutine panics.
ListenAndServe(k, bound) ==
    /\ ~panicked
    /\ k \in 1..Len(listeners)
    /\ listeners[k].pc = "registered"
    /\ IF k \in inShutdown
       THEN /\ listeners' = [listeners EXCEPT ![k].pc = "returned"]
            /\ UNCHANGED panicked
       ELSE IF bound
       THEN /\ listeners' = [listeners EXCEPT ![k].pc = "serving"]
            /\ UNCHANGED panicked
       ELSE /\ listeners' = [listeners EXCEPT ![k].pc = "panicked"]
            /\ panicked' = TRUE
    /\ UNCHANGED <<servers, mu, inShutdown, closes, closeIdx>>
    /\ UNCHANGED vars

\* A serving server that was shut down: Serve returns ErrServerClosed.
ServeReturns(k) ==
    /\ ~panicked
    /\ k \in 1..Len(listeners)
    /\ listeners[k].pc = "serving"
    /\ k \in inShutdown
    /\ listeners' = [listeners EXCEPT ![k].pc = "returned"]
    /\ UNCHANGED <<servers, mu, inShutdown, closes, closeIdx, panicked>>
    /\ UNCHANGED vars

\* Close(fn) up to its loop: take the read lock; with s.servers nil return
\* nil at once, else emit "close" and start the loop.  `seen` keeps the
\* Listen calls that had returned when Close was called.
Close(fn) ==
    /\ ~panicked
    /\ ~closing
    /\ Len(closes) < MaxClose
    /\ LET call(ret) == [ret |-> ret, fn |-> fn, called |-> FALSE,
                         seen |-> 1..Len(listeners)]
       IN  IF servers = <<>>
           THEN /\ closes' = Append(closes, call("nil"))
                /\ UNCHANGED <<mu, closeIdx>>
           ELSE /\ closes' = Append(closes, call("running"))
                /\ mu' = "rlocked"
                /\ closeIdx' = 1
    /\ UNCHANGED <<servers, listeners, inShutdown, panicked>>
    /\ UNCHANGED vars

\* One round of Close's loop: server.Shutdown(ctx) stops the server from
\* accepting; on a serving server it may run into the context's deadline
\* before the connections are idle, and Close returns that error.
Shutdown(drained) ==
    /\ ~panicked
    /\ closing
    /\ closeIdx <= Len(servers)
    /\ LET k == servers[closeIdx]
       IN  /\ inShutdown' = inShutdown \cup {k}
           /\ IF listeners[k].pc = "serving" /\ ~drained
              THEN /\ closes' = [closes EXCEPT ![Len(closes)].ret = "err"]
                   /\ mu' = "free"
                   /\ closeIdx' = 0
              ELSE /\ closeIdx' = closeIdx + 1
                   /\ UNCHANGED <<closes, mu>>
    /\ UNCHANGED <<servers, listeners, panicked>>
    /\ UNCHANGED vars

\* The end of Close's loop: fn is called when one was given, the read lock is
\* released and Close returns nil.
CloseReturn ==
    /\ ~panicked
    /\ closing
    /\ closeIdx > Len(servers)
    /\ closes' = [closes EXCEPT ![Len(closes)].ret = "nil",
                                ![Len(closes)].called = closes[Len(closes)].fn]
    /\ mu' = "free"
    /\ closeIdx' = 0
    /\ UNCHANGED <<servers, listeners, inShutdown, panicked>>
    /\ UNCHANGED vars

NextHttp ==
    \/ \E fn \in BOOLEAN : Listen(fn)
    \/ \E fn \in BOOLEAN : ListenTLS(fn)
    \/ \E k \in 1..MaxListen : httpServer(k)
    \/ \E k \in 1..MaxListen, bound \in BOOLEAN : ListenAndServe(k, bound)
    \/ \E k \in 1..MaxListen : ServeReturns(k)
    \/ \E fn \in BOOLEAN : Close(fn)
    \/ \E drained \in BOOLEAN : Shutdown(drained)
    \/ CloseReturn

SpecHttp == Init /\ [][NextHttp]_allVars

\* ------------------------------------------------------- derived notions

\* Submissions made so far, by number, in submission order.
Submissions == 1..Len(handle)

\* An operation is Running from the worker's call of func() to the
\* settlement of the promise it returned.
Running == {i \in Submissions : i \in Range(invoked) /\ outcome[i] = noOutcome}

\* An action is Queued while its item waits in q._tasks.
Queued == Ids(tasks)

IdSeq(s) == [i \in 1..Len(s) |-> s[i].id]

\* Submissions whose item left the pipeline without being handed to the worker.
Removed == {i \in Submissions : i \notin Queued /\ i \notin Range(invoked)}

RegMods == {queuedActionsInternal[i].mod : i \in 1..Len(queuedActionsInternal)}

NoneLocated(mod) == find(queuedActionsInternal, mod) = <<>>

LocatedRunning(mod) ==
    /\ ~NoneLocated(mod)
    /\ find(queuedActionsInternal, mod)[1].id \in Running

\* ---------------------------------------------------------------- claims

\* C1. At most one running: in every reachable state at most one submitted
\* operation has been invoked and has not settled, whatever interleaving of
\* submissions, withdrawals, releases, policy changes and settlements led
\* there and however many keys are queued.
C1_AtMostOneRunning == Cardinality(Running) <= 1

\* C1 witness: the gate is open, one operation runs and an action for a
\* different key waits behind it.
C1_Witness ==
    /\ Cardinality(Running) = 1
    /\ ~paused
    /\ Len(tasks) >= 1
    /\ Cardinality(RegMods) = 2

\* C2. Registry consistency: the registry lists exactly the actions that are
\* Running or Queued, in submission order, each once.
C2_RegistryConsistency ==
    IdSeq(queuedActionsInternal) = IdSeq(workersList \o tasks)

\* C3. Withdraw before run: the action that a Withdraw of its key located
\* while it was Queued (the registry's entry for the key) is never handed to
\* the worker afterwards and is gone from the pipeline, and right after a
\* Withdraw the snapshot holds no entry for the key.
C3_WithdrawBeforeRun ==
    /\ \A i \in withdrawn :
          /\ i \notin Range(invoked)
          /\ i \notin Queued
          /\ i \notin Ids(workersList)
    /\ last.op = "Withdraw" => last.mod \notin RegMods

\* C3 witness: an action was withdrawn while Queued and the queue has since
\* started a later submission.
C3_Witness ==
    \E i \in withdrawn : \E k \in 1..Len(invoked) : invoked[k] > i

\* C4. A Withdraw of a key whose action is Running, or that has no action,
\* changes neither the pipeline nor the gate nor the registry.
C4_WithdrawNoopElsewhere ==
    [][(/\ last'.op = "Withdraw"
        /\ NoneLocated(last'.mod) \/ LocatedRunning(last'.mod))
       => UNCHANGED <<tasks, paused, queuedActionsInternal>>]_vars

\* C5. FIFO order: operations are started in submission order; when an
\* operation is started no earlier submission still waits in the pipeline
\* (an earlier submission that has not started was removed from it), and
\* the waiting actions are always in submission order.
C5_FifoOrder ==
    /\ \A k \in 1..(Len(invoked) - 1) : invoked[k] < invoked[k + 1]
    /\ \A k \in 1..Len(invoked) : \A j \in 1..(invoked[k] - 1) : j \notin Queued
    /\ \A k \in 1..(Len(tasks) - 1) : tasks[k].id < tasks[k + 1].id

\* C5 witness: the first submission failed and the second was started
\* after it.
C5_Witness ==
    /\ invoked = <<1, 2>>
    /\ outcome[1] \in [ok : {FALSE}, v : Errors]

\* C6. Gate semantics: a Submit with the policy disabled leaves the gate as
\* it is; no operation is started in a step that begins with the gate
\* closed; the gate opens only by Release or by enabling the policy; after
\* a Submit with the policy enabled the gate is open.
C6_GateSemantics ==
    [][/\ (last'.op = "Submit" /\ ~queueAutoStart) => paused' = paused
       /\ invoked' # invoked => ~paused
       /\ (paused /\ ~paused') =>
             \/ last'.op = "Release"
             \/ last'.op = "SetAutoStart" /\ queueAutoStart'
       /\ (last'.op = "Submit" /\ queueAutoStart) => ~paused']_vars

\* C6 witness: two actions were submitted with the policy disabled, the
\* gate is still closed and nothing has started.
C6_Witness ==
    /\ ~queueAutoStart
    /\ paused
    /\ last.op = "Submit"
    /\ Len(tasks) = 2
    /\ invoked = <<>>

\* C7. Automatic gating: with the policy disabled, whenever nothing is
\* Queued and nothing is Running the gate is closed.
C7_EmptyImpliesHeld ==
    (~queueAutoStart /\ tasks = <<>> /\ Running = {}) => paused

\* C8. Error isolation: in the step in which the operation of submission i
\* fails, i's handle is rejected with that error and no other handle
\* changes; i is not queued or run again; the next waiting action, if the
\* gate is open, is started in that very step, and otherwise the pipeline
\* and the gate are as before; the gate closes in that step only because the
\* last waiting action was taken with the policy disabled; and a handle is
\* settled only once its own operation has settled.
C8_ErrorIsolation ==
    [][\A i \in Submissions :
          (outcome[i] = noOutcome /\ outcome'[i] \in [ok : {FALSE}, v : Errors]) =>
             /\ handle'[i] = [state |-> "rejected", v |-> outcome'[i].v]
             /\ \A j \in Submissions \ {i} : handle'[j] = handle[j]
             /\ i \notin Ids(tasks') /\ i \notin Ids(workersList')
             /\ Cardinality({k \in 1..Len(invoked') : invoked'[k] = i}) = 1
             /\ IF ~paused /\ tasks # <<>>
                THEN /\ invoked' = Append(invoked, Head(tasks).id)
                     /\ tasks' = Tail(tasks)
                ELSE /\ invoked' = invoked
                     /\ tasks' = tasks
                     /\ paused' = paused
             /\ paused' # paused =>
                   (tasks # <<>> /\ tasks' = <<>> /\ ~queueAutoStart)
             /\ \A j \in Submissions :
                   handle'[j] # pending => outcome'[j] # noOutcome]_vars

\* C8 witness: the first operation failed and its handle is rejected, the
\* second ran after it and its handle is resolved.
C8_Witness ==
    /\ invoked = <<1, 2>>
    /\ outcome[1] \in [ok : {FALSE}, v : Errors]
    /\ handle[1].state = "rejected"
    /\ outcome[2].ok
    /\ handle[2].state = "resolved"

\* C9. A Submit for a key that already has an entry in the registry is
\* rejected at once and changes neither the pipeline nor the registry, so
\* the registry never holds two entries for one key.
C9_DuplicateKeyRejected ==
    /\ [](\A i, j \in 1..Len(queuedActionsInternal) :
             queuedActionsInternal[i].mod = queuedActionsInternal[j].mod => i = j)
    /\ [][(last'.op = "Submit" /\ last'.mod \in RegMods) =>
             /\ UNCHANGED <<tasks, queuedActionsInternal>>
             /\ handle'[Len(handle')].state = "rejected"]_vars

\* C10. The handle carries the outcome of its own operation: resolved with
\* the value the operation succeeded with, rejected with the error it failed
\* with.
C10_HandleCarriesOutcome ==
    \A i \in Submissions :
        outcome[i] # noOutcome =>
            handle[i] = [state |-> IF outcome[i].ok THEN "resolved" ELSE "rejected",
                         v |-> outcome[i].v]

\* C11. Completion signal exactly once: a settled handle never changes
\* again and a handle is settled only once its own operation has settled;
\* the handle of a submission withdrawn while Queued stays pending; the
\* worker calls the operation of a submission at most once.
C11_SettledOnce ==
    /\ [](\A i \in Submissions :
             /\ handle[i] # pending => outcome[i] # noOutcome
             /\ i \in withdrawn => handle[i] = pending
             /\ Cardinality({k \in 1..Len(invoked) : invoked[k] = i}) <= 1)
    /\ [][\A i \in Submissions :
             /\ handle[i] # pending => handle'[i] = handle[i]
             /\ outcome[i] # noOutcome => outcome'[i] = outcome[i]]_vars

\* C11 witness: the first submission was withdrawn while Queued and its
\* handle is pending, the second ran and its handle is settled.
C11_Witness ==
    /\ 1 \in withdrawn
    /\ handle[1] = pending
    /\ Len(handle) = 2
    /\ invoked = <<2>>
    /\ handle[2] # pending

\* C12. No missed wake-up: an action that is Queued while the policy is
\* enabled is eventually started, unless it is removed from the pipeline or
\* the policy is disabled first, given that deferred jobs run and started
\* operations settle.
C12_NoMissedWakeUp ==
    \A i \in 1..MaxSubmit :
        (queueAutoStart /\ i \in Queued)
            ~> (i \in Range(invoked) \/ i \notin Queued \/ ~queueAutoStart)

\* C12 witness: the policy has just been enabled while an action submitted
\* under the disabled policy still waits.
C12_Witness ==
    /\ last.op = "SetAutoStart"
    /\ queueAutoStart
    /\ tasks # <<>>
    /\ invoked = <<>>
    /\ ~processingScheduled

\* C13. Release drains the queue with the policy disabled: every action
\* that is Queued when Release is called is eventually run to settlement,
\* its handle settled and its entry gone from the registry, unless it is
\* removed from the pipeline or the policy is enabled first; and unless a
\* further Submit or a policy enable comes, the snapshot eventually holds
\* no entry of an action that is waiting, running or done.
C13_ReleaseDrains ==
    /\ \A i \in 1..MaxSubmit :
          (last.op = "Release" /\ ~queueAutoStart /\ i \in Queued)
              ~> \/ /\ i \in Submissions
                    /\ outcome[i] # noOutcome
                    /\ handle[i] # pending
                    /\ i \notin Ids(queuedActionsInternal)
                 \/ i \in Removed
                 \/ queueAutoStart
    /\ \A n \in 0..MaxSubmit :
          (last.op = "Release" /\ ~queueAutoStart /\ Len(handle) = n)
              ~> \/ Ids(queuedActionsInternal) \subseteq Removed
                 \/ queueAutoStart
                 \/ Len(handle) # n

\* C13 witness: Release has just been called with the policy disabled and
\* two actions Queued.
C13_Witness ==
    /\ last.op = "Release"
    /\ ~queueAutoStart
    /\ ~paused
    /\ Len(tasks) = 2
    /\ Len(queuedActionsInternal) = 2

\* C14. SetAutoStart(false) has no effect on a Running action: the step
\* that disables the policy leaves the worker's actions, the Queued items
\* and their order, the registry and every handle as they were, and an
\* action that is Running when the policy is disabled is still run to
\* settlement, with its handle settled and its entry out of the registry.
C14_DisableSparesRunning ==
    /\ [][(last'.op = "SetAutoStart" /\ ~queueAutoStart')
              => UNCHANGED <<workersList, numRunning, tasks,
                             queuedActionsInternal, handle, outcome,
                             invoked, withdrawn>>]_vars
    /\ \A i \in 1..MaxSubmit :
          (last.op = "SetAutoStart" /\ ~queueAutoStart /\ i \in Running)
              ~> /\ i \in Submissions
                 /\ i \notin Running
                 /\ outcome[i] # noOutcome
                 /\ handle[i] # pending
                 /\ i \notin Ids(queuedActionsInternal)

\* C14 witness: the policy has just been disabled while one action is
\* Running and another is Queued.
C14_Witness ==
    /\ last.op = "SetAutoStart"
    /\ ~queueAutoStart
    /\ paused
    /\ Running # {}
    /\ tasks # <<>>

\* C15. With the policy disabled the gate closes by itself only at an
\* instant with no Queued and no Running action, and when a Running action
\* settles behind an open gate the head of the Queued actions is started in
\* the same step.
C15_GateClosesWhenIdle ==
    /\ [][(~queueAutoStart /\ ~queueAutoStart' /\ ~paused /\ paused')
              => (Queued' = {} /\ Running' = {})]_vars
    /\ [][(last'.op = "Settle" /\ ~paused /\ tasks # <<>>)
              => Head(tasks).id \in Range(invoked')]_vars

\* C16. Settlement ordering: in every state in which a handle is settled
\* the registry holds no entry of that action, and the step in which an
\* operation settles leaves its handle settled, its entry out of the
\* registry and the worker free of it; an action dequeued in that step is
\* dequeued from the queue as complete and cb left it.
C16_SettlementOrdering ==
    /\ [](\A i \in Submissions :
             handle[i] # pending => i \notin Ids(queuedActionsInternal))
    /\ [][last'.op = "Settle" =>
             \A i \in Submissions :
                 (outcome[i] = noOutcome /\ outcome'[i] # noOutcome)
                     => /\ handle'[i] # pending
                        /\ i \notin Ids(queuedActionsInternal')
                        /\ i \notin Ids(workersList')
                        /\ \A j \in Range(invoked') \ Range(invoked) :
                               /\ tasks # <<>>
                               /\ j = Head(tasks).id
                               /\ j # i]_vars

\* C16 witness: the first action has settled and the second was dequeued in
\* the settling step.
C16_Witness ==
    /\ last.op = "Settle"
    /\ invoked = <<1, 2>>
    /\ handle[1] # pending
    /\ 2 \in Running
    /\ Ids(queuedActionsInternal) = {2}

\* C17. Withdraw(key) and the settlement of key's operation touch only the
\* action for key: a registry entry with another key stays in the registry,
\* and if its item was Queued it is still Queued after a Withdraw and still
\* Queued or handed to the worker after a settlement.
C17_OnlyOwnKey ==
    /\ [][last'.op = "Withdraw" =>
             \A a \in Range(queuedActionsInternal) :
                 a.mod # last'.mod
                     => /\ a \in Range(queuedActionsInternal')
                        /\ a.id \in Queued => a.id \in Queued']_vars
    /\ [][last'.op = "Settle" =>
             \A i \in Submissions :
                 (outcome[i] = noOutcome /\ outcome'[i] # noOutcome) =>
                     \A a \in Range(queuedActionsInternal) :
                         (\A b \in Range(queuedActionsInternal) :
                              b.id = i => b.mod # a.mod)
                             => /\ a \in Range(queuedActionsInternal')
                                /\ a.id \in Queued
                                       => a.id \in Queued' \cup Range(invoked')]_vars

\* C18. Auto-start enabled implies the gate is open; the gate closes only
\* in the step that disables the policy or in a q.process() that takes the
\* last item while the policy is disabled; and the steps of Release and of
\* enabling the policy leave the gate open.
C18_AutoStartKeepsGateOpen ==
    /\ [](queueAutoStart => ~paused)
    /\ [][(~paused /\ paused') =>
             \/ last'.op = "SetAutoStart" /\ ~queueAutoStart'
             \/ /\ last'.op \in {"ProcessTick", "ResumeTick", "Settle"}
                /\ ~queueAutoStart
                /\ tasks # <<>>
                /\ tasks' = <<>>
                /\ invoked' # invoked]_vars
    /\ [][(\/ last'.op = "Release"
           \/ last'.op = "SetAutoStart" /\ queueAutoStart') => ~paused']_vars

\* C18 witness: with the policy enabled q.process() has taken the last item,
\* the `empty` handler has run, and the gate is open.
C18_Witness ==
    /\ queueAutoStart
    /\ last.op \in {"ProcessTick", "ResumeTick"}
    /\ tasks = <<>>
    /\ Running # {}
    /\ ~paused

\* C19. A Close that returned nil has shut down the server of every Listen
\* and ListenTLS call that had returned when Close was called, so none of
\* them is registered and serving untouched, and has called fn when one was
\* given and such a call exists.
C19_CloseStopsServers ==
    \A c \in 1..Len(closes) :
        closes[c].ret = "nil" =>
            /\ \A k \in closes[c].seen :
                   /\ k \in inShutdown
                   /\ ~(/\ k \in Range(servers)
                        /\ listeners[k].pc = "serving"
                        /\ k \notin inShutdown)
            /\ (closes[c].fn /\ closes[c].seen # {}) => closes[c].called

====
